---- MODULE Spec2Model ----
(***************************************************************************)
(* Model of annotation_extraction: CustomAnnotation.set_context_sentence   *)
(* (the sentence aligner), custom_process_file (outline filing, the page   *)
(* loop) and main / write_list_to_markdown (the consolidated report).      *)
(*                                                                         *)
(* A string is a sequence of one-character strings.  An optional value is  *)
(* None or Some(v).                                                        *)
(***************************************************************************)
EXTENDS Integers, Sequences, FiniteSets, TLC

VARIABLES
    \* ---- CustomAnnotation.set_context_sentence (one call) ----
    call,               \* "idle" | "ready" | "returned" | "raised"
    page_text,          \* the argument page_text
    text,               \* self.text: the list of captured pieces
    context_sentence,   \* self.context_sentence
    text_to_add,        \* the local text_to_add when the call ended
    \* ---- custom_process_file (one run) ----
    pc,                 \* "idle" | "outlines" | "enumerate" | "render" | "sort"
                        \* | "postprocess" | "returned" | "failed"
    outlines_by_pageno, \* dict: page number -> list of outlines
    outlines_by_objid,  \* dict: page object id -> list of outlines
    result,             \* result.pages
    annots_by_objid,    \* the object ids filed for the current page
    ai,                 \* position of the loop of lines 239-241 in page.annots
    log,                \* what the logger was given
    failure,            \* what raised out of the run, "none" while it runs
    filed,              \* history: the outlines filed at lines 184 and 186
    steps,              \* history: the per-page steps taken, in order
    \* ---- main: the loop body for one file ----
    rpc,                \* "idle" | "ready" | "done"
    first,              \* main's flag for the file mode
    file_path,          \* the path of the file at hand
    document,           \* the annotations of custom_process_file's result,
                        \* in page order: [context_sentence, contents, text]
    entries,            \* main's list of (context, contents, text)
    out_file,           \* consolidated_notes.md: what it holds, write by write
    printed             \* whether "No context sentences found." was printed

avars == <<call, page_text, text, context_sentence, text_to_add>>
dvars == <<pc, outlines_by_pageno, outlines_by_objid, result, annots_by_objid,
           ai, log, failure, filed, steps>>
rvars == <<rpc, first, file_path, document, entries, out_file, printed>>
vars == <<avars, dvars, rvars>>

None == [isNone |-> TRUE]
Some(v) == [val |-> v]

----------------------------------------------------------------------------
(* Strings *)

IsSpace(c) == c \in {" ", "\n"}
IsPunct(c) == c \in {".", "!", "?"}

RECURSIVE Concat(_)
\* ''.join(pieces)
Concat(pieces) ==
    IF pieces = <<>> THEN <<>> ELSE Head(pieces) \o Concat(Tail(pieces))

RECURSIVE SkipSpace(_, _)
\* the end of the whitespace run \s+ that starts at i
SkipSpace(s, i) ==
    IF i <= Len(s) /\ IsSpace(s[i]) THEN SkipSpace(s, i + 1) ELSE i

RECURSIVE SplitFrom(_, _, _)
SplitFrom(s, i, cur) ==
    IF i > Len(s) THEN <<cur>>
    ELSE IF IsSpace(s[i]) /\ i > 1 /\ IsPunct(s[i - 1])
         THEN <<cur>> \o SplitFrom(s, SkipSpace(s, i), <<>>)
         ELSE SplitFrom(s, i + 1, Append(cur, s[i]))

\* re.split(r'(?<=[.!?])\s+', s)
SplitSentences(s) == SplitFrom(s, 1, <<>>)

RECURSIVE ReplaceFrom(_, _)
\* str.replace("-\n", "-").replace("\n", " "), read from position i
ReplaceFrom(s, i) ==
    IF i > Len(s) THEN <<>>
    ELSE IF s[i] = "\n"
         THEN IF i > 1 /\ s[i - 1] = "-"
              THEN ReplaceFrom(s, i + 1)
              ELSE <<" ">> \o ReplaceFrom(s, i + 1)
         ELSE <<s[i]>> \o ReplaceFrom(s, i + 1)

NormaliseLineBreaks(s) == ReplaceFrom(s, 1)

RECURSIVE LStrip(_)
LStrip(s) == IF s # <<>> /\ IsSpace(Head(s)) THEN LStrip(Tail(s)) ELSE s

RECURSIVE RStrip(_)
RStrip(s) ==
    IF s # <<>> /\ IsSpace(s[Len(s)]) THEN RStrip(SubSeq(s, 1, Len(s) - 1)) ELSE s

\* str.strip()
Strip(s) == RStrip(LStrip(s))

\* sub in s
Contains(sub, s) ==
    \E i \in 0..(Len(s) - Len(sub)) : SubSeq(s, i + 1, i + Len(sub)) = sub

RECURSIVE JoinSpace(_)
\* " ".join(list)
JoinSpace(list) ==
    IF list = <<>> THEN <<>>
    ELSE IF Len(list) = 1 THEN list[1]
    ELSE list[1] \o <<" ">> \o JoinSpace(Tail(list))

\* list(map(str.strip, list))
StripAll(list) == [n \in 1..Len(list) |-> Strip(list[n])]

\* the sequences over S of length at most n
SeqsUpTo(S, n) == UNION { [1..m -> S] : m \in 0..n }

----------------------------------------------------------------------------
(* CustomAnnotation.set_context_sentence *)

\* sentences, line 21
PageSentences(pt) ==
    LET split == SplitSentences(pt)
    IN  [n \in 1..Len(split) |-> NormaliseLineBreaks(split[n])]

\* self.gettext(): the captured pieces joined (pdfannots' Annotation.gettext)
GetText(t) == Concat(t)

\* annotation_sentences, lines 24-25
AnnotationSentences(t) == StripAll(SplitSentences(Strip(GetText(t))))

RECURSIVE ExtendWindow(_, _, _, _, _)
\* the loop over j of lines 35-38; k is the (1-based) index of the last page
\* sentence appended, so sentences[k+1] of the code is sents[k + 1] here
ExtendWindow(frags, sents, j, k, acc) ==
    IF j > Len(frags) THEN [raised |-> FALSE, acc |-> acc]
    ELSE IF k + 1 > Len(sents) THEN [raised |-> TRUE, acc |-> acc]
    ELSE IF Contains(frags[j], Strip(sents[k + 1]))
         THEN ExtendWindow(frags, sents, j + 1, k + 1, Append(acc, Strip(sents[k + 1])))
         ELSE ExtendWindow(frags, sents, j + 1, k, acc)

\* the page sentences (1-based) that contain the first annotation fragment
MatchIndexes(frags, sents) ==
    {i \in 1..Len(sents) : Contains(frags[1], Strip(sents[i]))}

Min(S) == CHOOSE m \in S : \A n \in S : m <= n

\* FirstMatch with a fault: the window starts at the last matching sentence.
FirstMatchLast(frags, sents) == CHOOSE m \in MatchIndexes(frags, sents) :
                                    \A n \in MatchIndexes(frags, sents) : n <= m

\* the i at which line 32 first holds
FirstMatch(frags, sents) == Min(MatchIndexes(frags, sents))

\* The whole method: [kind, context, acc].  kind is "returned" or "raised"
\* (IndexError at line 36); context is the new self.context_sentence.
SetContextSentence(t, pt, old) ==
    IF t = <<>> THEN [kind |-> "returned", context |-> old, acc |-> <<>>]
    ELSE LET sents == PageSentences(pt)
             frags == AnnotationSentences(t)
         IN  IF MatchIndexes(frags, sents) = {}
             THEN [kind |-> "returned", context |-> old, acc |-> <<>>]
             ELSE LET i == FirstMatch(frags, sents)
                      w == ExtendWindow(frags, sents, 2, i, <<Strip(sents[i])>>)
                  IN  IF w.raised
                      THEN [kind |-> "raised", context |-> old, acc |-> w.acc]
                      ELSE [kind |-> "returned", context |-> Some(JoinSpace(w.acc)),
                            acc |-> w.acc]

----------------------------------------------------------------------------
(* custom_process_file *)

MaxPages == 2
MaxOutlines == 2
MaxAnnots == 2

\* the object id of the page that PDFPage.create_pages yields at index n
PageObjId(n) == 10 + n

\* what an outline's pageref can be: a PDFObjRef or a page number
OutlineTargets ==
    [kind : {"objid"}, ref : {PageObjId(n) : n \in 0..(MaxPages - 1)}]
        \cup [kind : {"pageno"}, ref : 0..(MaxPages - 1)]

\* the entries of a page's annots array: an object id and a Subtype
AnnotRefs == [objid : {1, 2}, subtype : {"Highlight", "Link"}]

\* the text boxes of a laid-out page
LayoutTexts == { << <<" ", "a", ".">>, <<"\n">>, <<" ", "b", ".">> >> }

\* what rendering can capture for one annotation
CapturedTexts == { << <<" ", "a", ".">> >>, << <<"b", ".", " ">>, <<"a", ".">> >> }

\* no call of set_context_sentence is modelled
AlignIdle ==
    /\ call = "idle"
    /\ page_text = <<>>
    /\ text = <<>>
    /\ context_sentence = None
    /\ text_to_add = <<>>

\* no file is being reported
ReportIdle ==
    /\ rpc = "idle"
    /\ first = TRUE
    /\ file_path = <<>>
    /\ document = <<>>
    /\ entries = <<>>
    /\ out_file = <<>>
    /\ printed = FALSE

\* no run of custom_process_file is modelled
DocIdle ==
    /\ pc = "idle"
    /\ outlines_by_pageno = <<>>
    /\ outlines_by_objid = <<>>
    /\ result = <<>>
    /\ annots_by_objid = {}
    /\ ai = 0
    /\ log = {}
    /\ failure = "none"
    /\ filed = {}
    /\ steps = <<>>

\* lines 161-179: the state when the outlines are about to be read
InitDoc ==
    /\ AlignIdle
    /\ ReportIdle
    /\ pc = "outlines"
    /\ outlines_by_pageno = <<>>
    /\ outlines_by_objid = <<>>
    /\ result = <<>>
    /\ annots_by_objid = {}
    /\ ai = 0
    /\ log = {}
    /\ failure = "none"
    /\ filed = {}
    /\ steps = <<>>

\* d.get(k, [])
DictGet(d, k) == IF k \in DOMAIN d THEN d[k] ELSE <<>>

\* d[k].append(o) on a defaultdict(list)
DictAppend(d, k, o) ==
    [x \in DOMAIN d \cup {k} |-> IF x = k THEN Append(DictGet(d, k), o) ELSE d[x]]

\* d after d.pop(k, [])
DictWithout(d, k) == [x \in DOMAIN d \ {k} |-> d[x]]

RECURSIVE FileOutlines(_, _, _, _)
\* the loop body of lines 183-186 over the outlines yielded, from the n-th
FileOutlines(yielded, n, byobj, bypage) ==
    IF n > Len(yielded) THEN [byobj |-> byobj, bypage |-> bypage]
    ELSE LET o == [id |-> n, kind |-> yielded[n].kind, ref |-> yielded[n].ref]
         IN  IF o.kind = "objid"
             THEN FileOutlines(yielded, n + 1, DictAppend(byobj, o.ref, o), bypage)
             ELSE FileOutlines(yielded, n + 1, byobj, DictAppend(bypage, o.ref, o))

\* lines 181-190: _get_outlines yields `yielded` and then ends ("ok"), or
\* raises PDFNoOutlines before yielding, or raises another exception
ReadOutlines ==
    /\ pc = "outlines"
    /\ \E yielded \in SeqsUpTo(OutlineTargets, MaxOutlines),
          outcome \in {"ok", "no_outlines", "error"} :
          /\ outcome = "no_outlines" => yielded = <<>>
          /\ LET f == FileOutlines(yielded, 1, <<>>, <<>>)
             IN  /\ outlines_by_objid' = f.byobj
                 /\ outlines_by_pageno' = f.bypage
          /\ filed' = {[id |-> n, kind |-> yielded[n].kind, ref |-> yielded[n].ref] :
                          n \in 1..Len(yielded)}
          /\ log' = CASE outcome = "ok" -> log
                      [] outcome = "no_outlines" -> log \cup {"info: no outlines"}
                      [] outcome = "error" -> log \cup {"warning: failed to retrieve outlines"}
    /\ pc' = "enumerate"
    /\ UNCHANGED <<result, annots_by_objid, ai, failure, steps>>
    /\ UNCHANGED <<avars, rvars>>

\* mkannotationcustom, lines 77-88 and 140: None for a subtype that is not
\* supported, else a new annotation
MkAnnotationCustom(pa) ==
    IF pa.subtype = "Highlight"
    THEN Some([objid |-> pa.objid, seqno |-> 0, text |-> <<>>,
               context_sentence |-> None, postprocessed |-> FALSE])
    ELSE None

RECURSIVE BuildAnnots(_, _, _, _)
\* lines 212-222 over the page's annots array, from the n-th entry
BuildAnnots(refs, n, annots, byid) ==
    IF n > Len(refs) THEN [annots |-> annots, byid |-> byid, asserted |-> FALSE]
    ELSE LET made == MkAnnotationCustom(refs[n])
         IN  IF made = None THEN BuildAnnots(refs, n + 1, annots, byid)
             ELSE IF refs[n].objid \in byid
                  THEN [annots |-> Append(annots, made.val), byid |-> byid,
                        asserted |-> TRUE]
                  ELSE BuildAnnots(refs, n + 1, Append(annots, made.val),
                                   byid \cup {refs[n].objid})

\* lines 202-203: the outlines popped for the page, by object id and then by
\* page number
PoppedOutlines(objid, pageno) ==
    DictGet(outlines_by_objid, objid) \o DictGet(outlines_by_pageno, pageno)

LastPage == result[Len(result)]

SetLastPage(p) == [result EXCEPT ![Len(result)] = p]

Step(op) == [op |-> op, page |-> Len(result) - 1]

\* AfterRender with a fault: the sort is skipped.
AfterRenderNoSort == "postprocess"

\* the next step after the page is rendered (lines 232-235)
AfterRender == "sort"

\* the next step after the sort (lines 236-239)
AfterSort == "postprocess"

\* lines 194-226: the next page is yielded and constructed, its outlines are
\* resolved, its annotations are built; the page is skipped when it has
\* neither
NextPage ==
    /\ pc = "enumerate"
    /\ Len(result) < MaxPages
    /\ \E refs \in SeqsUpTo(AnnotRefs, MaxAnnots) :
          LET pageno == Len(result)
              objid == PageObjId(pageno)
              built == BuildAnnots(refs, 1, <<>>, {})
              page == [pageno |-> pageno, objid |-> objid,
                       outlines |-> PoppedOutlines(objid, pageno),
                       annots |-> built.annots, full_text |-> None]
          IN  /\ result' = Append(result, page)
              /\ outlines_by_objid' = DictWithout(outlines_by_objid, objid)
              /\ outlines_by_pageno' = DictWithout(outlines_by_pageno, pageno)
              /\ annots_by_objid' = built.byid
              /\ steps' = Append(steps, [op |-> "enumerate", page |-> pageno])
              /\ IF built.asserted
                 THEN pc' = "failed" /\ failure' = "assert_objid"
                 ELSE /\ failure' = failure
                      /\ pc' = IF page.annots = <<>> /\ page.outlines = <<>>
                               THEN "enumerate" ELSE "render"
    /\ ai' = 1
    /\ UNCHANGED <<log, filed>>
    /\ UNCHANGED <<avars, rvars>>

\* ExtendedPDFProcessor.receive_layout, lines 58-63: the page's full text
FullText(texts) ==
    JoinSpace(SelectSeq(StripAll(texts), LAMBDA t : t # <<>>))

Perms(n) == {f \in [1..n -> 1..n] : \A x, y \in 1..n : f[x] = f[y] => x = y}

\* lines 231-232: the page is rendered; every annotation gets its captured
\* text and its sequence number, the page its full text
Render ==
    /\ pc = "render"
    /\ \E texts \in LayoutTexts,
          caps \in [1..Len(LastPage.annots) -> CapturedTexts],
          seq \in Perms(Len(LastPage.annots)) :
          result' = SetLastPage(
              [LastPage EXCEPT
                  !.full_text = Some(FullText(texts)),
                  !.annots = [n \in 1..Len(LastPage.annots) |->
                                 [LastPage.annots[n] EXCEPT !.text = caps[n],
                                                            !.seqno = seq[n]]]])
    /\ pc' = AfterRender
    /\ steps' = Append(steps, Step("render"))
    /\ UNCHANGED <<outlines_by_pageno, outlines_by_objid, annots_by_objid, ai, log,
                   failure, filed>>
    /\ UNCHANGED <<avars, rvars>>

\* line 232 raises: the page cannot be rendered
RenderRaises ==
    /\ pc = "render"
    /\ pc' = "failed"
    /\ failure' = "render"
    /\ UNCHANGED <<outlines_by_pageno, outlines_by_objid, result, annots_by_objid, ai,
                   log, filed, steps>>
    /\ UNCHANGED <<avars, rvars>>

RECURSIVE InsertBySeqno(_, _)
InsertBySeqno(a, sorted) ==
    IF sorted = <<>> THEN <<a>>
    ELSE IF a.seqno < Head(sorted).seqno THEN <<a>> \o sorted
    ELSE <<Head(sorted)>> \o InsertBySeqno(a, Tail(sorted))

RECURSIVE SortBySeqno(_)
\* list.sort() of annotations: ascending sequence number, stable
SortBySeqno(list) ==
    IF list = <<>> THEN <<>>
    ELSE InsertBySeqno(list[Len(list)], SortBySeqno(SubSeq(list, 1, Len(list) - 1)))

\* lines 235-236: page.annots.sort(); page.outlines.sort().  The outlines of
\* the model carry no position in the page, so their order stays.
Sort ==
    /\ pc = "sort"
    /\ result' = SetLastPage([LastPage EXCEPT !.annots = SortBySeqno(LastPage.annots)])
    /\ pc' = IF LastPage.annots = <<>> THEN "enumerate" ELSE AfterSort
    /\ steps' = Append(steps, Step("sort"))
    /\ UNCHANGED <<outlines_by_pageno, outlines_by_objid, annots_by_objid, ai, log,
                   failure, filed>>
    /\ UNCHANGED <<avars, rvars>>

\* lines 239-241, one iteration: a.postprocess(annots_by_objid), then
\* a.set_context_sentence(page.full_text)
PostprocessAnnot ==
    /\ pc = "postprocess"
    /\ ai <= Len(LastPage.annots)
    /\ LET a == LastPage.annots[ai]
           r == SetContextSentence(a.text, LastPage.full_text.val, a.context_sentence)
       IN  /\ result' = SetLastPage(
                  [LastPage EXCEPT !.annots[ai] =
                      [a EXCEPT !.postprocessed = TRUE,
                                !.context_sentence = r.context]])
           /\ steps' = steps \o <<Step("postprocess"), Step("align")>>
           /\ IF r.kind = "raised"
              THEN pc' = "failed" /\ failure' = "align" /\ ai' = ai
              ELSE /\ failure' = failure
                   /\ ai' = ai + 1
                   /\ pc' = IF ai = Len(LastPage.annots) THEN "enumerate"
                            ELSE "postprocess"
    /\ UNCHANGED <<outlines_by_pageno, outlines_by_objid, annots_by_objid, log, filed>>
    /\ UNCHANGED <<avars, rvars>>

\* AllOutlinesResolved with a fault: the assertions are not checked.
AllOutlinesResolvedUnchecked == TRUE

\* lines 249-250: assert {} == outlines_by_pageno; assert {} == outlines_by_objid
AllOutlinesResolved ==
    DOMAIN outlines_by_pageno = {} /\ DOMAIN outlines_by_objid = {}

\* lines 244-252: the pages are exhausted; the run returns the document or
\* an assertion fails
Finish ==
    /\ pc = "enumerate"
    /\ IF AllOutlinesResolved
       THEN pc' = "returned" /\ failure' = failure
       ELSE pc' = "failed" /\ failure' = "assert_outlines"
    /\ UNCHANGED <<outlines_by_pageno, outlines_by_objid, result, annots_by_objid, ai,
                   log, filed, steps>>
    /\ UNCHANGED <<avars, rvars>>

NextDoc ==
    \/ ReadOutlines
    \/ NextPage
    \/ Render
    \/ RenderRaises
    \/ Sort
    \/ PostprocessAnnot
    \/ Finish

----------------------------------------------------------------------------
(* main and write_list_to_markdown *)

MaxEntries == 2

\* bool(x) of an optional string
Truthy(x) == x # None /\ x.val # ""

\* "{x}" in an f-string
Format(x) == IF x = None THEN "None" ELSE x.val

RECURSIVE RemoveAll(_, _)
\* s.replace(pat, "")
RemoveAll(s, pat) ==
    IF s = <<>> THEN <<>>
    ELSE IF Len(s) >= Len(pat) /\ SubSeq(s, 1, Len(pat)) = pat
         THEN RemoveAll(SubSeq(s, Len(pat) + 1, Len(s)), pat)
         ELSE <<Head(s)>> \o RemoveAll(Tail(s), pat)

RECURSIVE LastSegment(_, _)
\* s.split(sep)[-1] for a separator of one character
LastSegment(s, sep) ==
    IF \E i \in 1..Len(s) : s[i] = sep
    THEN LastSegment(Tail(s), sep)
    ELSE s

DotPdf == <<".", "p", "d", "f">>

\* line 261
Title(file_name) == LastSegment(RemoveAll(file_name, DotPdf), "\\")

\* lines 265-271: what is written for one entry
EntryLine(entry) ==
    IF Truthy(entry[2]) /\ ~Truthy(entry[1])
    THEN <<"\n\n- > *standalone comment:* ", Format(entry[1]), "\n\n">>
    ELSE IF ~Truthy(entry[2])
         THEN <<"- ", Format(entry[1]), "\n">>
         ELSE <<"- ", Format(entry[1]), "\n\n\t> *comment:* ", Format(entry[2]),
                "\n\t>\n\t> *highlight_text:* ", Format(entry[3]), "\n\n">>

\* lines 262-272: the file after write_list_to_markdown
WriteListToMarkdown(file, file_name, es, mode) ==
    (IF mode = "w" THEN <<>> ELSE file)
        \o <<[kind |-> "title", title |-> Title(file_name)]>>
        \o [n \in 1..Len(es) |-> [kind |-> "entry", parts |-> EntryLine(es[n])]]
        \o <<[kind |-> "rule"]>>

\* lines 285-292
Entries(doc) ==
    [n \in 1..Len(doc) |-> <<doc[n].context_sentence, doc[n].contents, doc[n].text>>]

ReportAnnots ==
    [context_sentence : {None, Some(""), Some("ctx")},
     contents : {None, Some(""), Some("note")},
     text : {None, Some("hl")}]

FilePaths == { <<"x", ".", "p", "d", "f">>,
               <<"d", "\\", "x", ".", "p", "d", "f">>,
               <<"r">> }

\* main is about to handle one file of the walk
InitReport ==
    /\ AlignIdle
    /\ DocIdle
    /\ rpc = "ready"
    /\ first \in BOOLEAN
    /\ file_path \in FilePaths
    /\ document \in SeqsUpTo(ReportAnnots, MaxEntries)
    /\ entries = <<>>
    /\ out_file = <<[kind |-> "earlier"]>>
    /\ printed = FALSE

\* lines 279-304 for a file that is no PDF
MainSkipsFile ==
    /\ rpc = "ready"
    /\ ~Contains(DotPdf, file_path)
    /\ rpc' = "done"
    /\ UNCHANGED <<first, file_path, document, entries, out_file, printed>>
    /\ UNCHANGED <<avars, dvars>>

\* lines 279-304 for a PDF: the entries are collected and, when one of them
\* has a context, written
MainReportsFile ==
    /\ rpc = "ready"
    /\ Contains(DotPdf, file_path)
    /\ entries' = Entries(document)
    /\ IF \A n \in 1..Len(document) : document[n].context_sentence = None
       THEN printed' = TRUE /\ UNCHANGED <<out_file, first>>
       ELSE /\ out_file' = WriteListToMarkdown(out_file, file_path, Entries(document),
                                               IF first THEN "w" ELSE "a")
            /\ first' = FALSE
            /\ printed' = FALSE
    /\ rpc' = "done"
    /\ UNCHANGED <<file_path, document>>
    /\ UNCHANGED <<avars, dvars>>

NextReport == MainSkipsFile \/ MainReportsFile

----------------------------------------------------------------------------
(* Inputs of the aligner *)

MaxPagePieces == 3
MaxTextPieces == 3

PagePieces == { <<" ", "a", ".">>, <<" ", "b", ".">>, <<"a", "-", "\n">>, <<"\n">> }
TextPieces == { <<" ", "a", ".">>, <<" ", "b", ".">>, <<"\n">> }

InitAlign ==
    /\ DocIdle
    /\ ReportIdle
    /\ call = "ready"
    /\ page_text \in { Concat(p) : p \in SeqsUpTo(PagePieces, MaxPagePieces) }
    /\ text \in SeqsUpTo(TextPieces, MaxTextPieces)
    /\ context_sentence = None
    /\ text_to_add = <<>>

\* a.set_context_sentence(page_text)
CallSetContextSentence ==
    /\ call = "ready"
    /\ LET r == SetContextSentence(text, page_text, context_sentence)
       IN  /\ call' = r.kind
           /\ context_sentence' = r.context
           /\ text_to_add' = r.acc
    /\ UNCHANGED <<page_text, text>>
    /\ UNCHANGED <<dvars, rvars>>

Init == InitAlign \/ InitDoc \/ InitReport

Next == CallSetContextSentence \/ NextDoc \/ NextReport

Spec == Init /\ [][Next]_vars

----------------------------------------------------------------------------
(* Claims about set_context_sentence *)

CallEnded == call \in {"returned", "raised"}

Sents == PageSentences(page_text)
RawSents == SplitSentences(page_text)
Frags == AnnotationSentences(text)

\* the page sentences of S, trimmed, that contain the first fragment
StartsIn(S) == {i \in 1..Len(S) : Contains(Frags[1], Strip(S[i]))}

\* the full-match precondition of C1 over the sentence list S
FullMatch(S) ==
    /\ StartsIn(S) # {}
    /\ Min(StartsIn(S)) + Len(Frags) - 1 <= Len(S)
    /\ \A j \in 1..(Len(Frags) - 1) :
           Contains(Frags[j + 1], Strip(S[Min(StartsIn(S)) + j]))

\* trimmed S[k], ..., S[k+m] joined by single spaces
WindowText(S) ==
    JoinSpace([j \in 1..Len(Frags) |-> Strip(S[Min(StartsIn(S)) + j - 1])])

\* C1 as stated: with s_i the page text split after '.', '!' or '?' followed
\* by whitespace and f_j the fragments of the trimmed captured text, a full
\* match from the lowest k makes the context the trimmed s_k..s_(k+m) joined
\* by single spaces.
C1_AsStated ==
    (CallEnded /\ FullMatch(RawSents)) =>
        context_sentence = Some(WindowText(RawSents))

\* C1 amended: for a non-empty captured text, and with s_i the split pieces
\* after "-\n" -> "-" and "\n" -> " ", a full match from the lowest k makes
\* the context exactly the trimmed s_k..s_(k+m) joined by single spaces.
C1_FullMatchContext ==
    (CallEnded /\ text # <<>> /\ FullMatch(Sents)) =>
        /\ call = "returned"
        /\ context_sentence = Some(WindowText(Sents))

\* a full match of two or more fragments that starts after the first page
\* sentence
C1_Witness ==
    /\ call = "returned"
    /\ text # <<>>
    /\ FullMatch(Sents)
    /\ Len(Frags) >= 2
    /\ Min(StartsIn(Sents)) >= 2
    /\ context_sentence = Some(WindowText(Sents))

\* C2: for non-empty captured text the context is defined after the call
\* iff some page sentence contains the first fragment, and then the first
\* sentence of the context is the lowest-index such page sentence.
C2_FirstMatchWins ==
    (CallEnded /\ text # <<>>) =>
        /\ (context_sentence # None) <=> (StartsIn(Sents) # {})
        /\ context_sentence # None =>
               text_to_add[1] = Strip(Sents[Min(StartsIn(Sents))])

RECURSIVE LeadingMatches(_, _)
\* the number of fragments 2, 3, ... that match page sentences k+1, k+2, ...
\* before the first one that does not
LeadingMatches(k, j) ==
    IF j + 1 > Len(Frags) \/ k + j > Len(Sents) THEN 0
    ELSE IF Contains(Frags[j + 1], Strip(Sents[k + j]))
         THEN 1 + LeadingMatches(k, j + 1)
         ELSE 0

\* C3: fragment j is compared with page sentence k + j only, and after the
\* first fragment that does not match no later fragment adds a sentence: the
\* context holds the start sentence and the leading matches, nothing more.
C3_StopOnFirstMismatch ==
    (call = "returned" /\ text # <<>> /\ StartsIn(Sents) # {}) =>
        Len(text_to_add) = 1 + LeadingMatches(Min(StartsIn(Sents)), 1)

\* C4: set_context_sentence never raises, whatever the page text and the
\* captured text are.
C4_NeverRaises == call # "raised"

\* C5: empty or whitespace-only captured text leaves the context undefined.
C5_BlankTextNoContext ==
    (CallEnded /\ Strip(GetText(text)) = <<>>) => context_sentence = None

----------------------------------------------------------------------------
(* Claims about custom_process_file *)

\* where outline o stands on the pages' outline lists
Occurrences(o) ==
    {pn \in (1..Len(result)) \X (1..MaxOutlines + 1) :
        /\ pn[2] <= Len(result[pn[1]].outlines)
        /\ result[pn[1]].outlines[pn[2]] = o}

\* the page that outline o refers to was enumerated
TargetEnumerated(o) ==
    \E p \in 1..Len(result) :
        \/ o.kind = "objid" /\ result[p].objid = o.ref
        \/ o.kind = "pageno" /\ result[p].pageno = o.ref

\* C6: on every run that returns a Document, each outline filed before the
\* page enumeration is on exactly one page's outline list, both mappings are
\* empty, and no filed outline refers to a page that was never enumerated
\* (such a run fails instead).
C6_OutlineBijection ==
    pc = "returned" =>
        /\ \A o \in filed : Cardinality(Occurrences(o)) = 1
        /\ DOMAIN outlines_by_pageno = {} /\ DOMAIN outlines_by_objid = {}
        /\ \A o \in filed : TargetEnumerated(o)

\* a returned run in which one page took an outline by object id and
\* another outline by page number
C6_Witness ==
    /\ pc = "returned"
    /\ \E p \in 1..Len(result) :
          \E o1, o2 \in filed :
              /\ o1.kind = "objid" /\ o2.kind = "pageno"
              /\ Occurrences(o1) # {} /\ Occurrences(o2) # {}
              /\ \A pn \in Occurrences(o1) \cup Occurrences(o2) : pn[1] = p

\* C7: a page whose processing raises does not abort the run: only the
\* outline consistency assertions make custom_process_file fail.
C7_PageFailureIsolated ==
    pc = "failed" => failure = "assert_outlines"

Rank(op) == CASE op = "enumerate" -> 0
              [] op = "render" -> 1
              [] op = "sort" -> 2
              [] op = "postprocess" -> 3
              [] op = "align" -> 3

StepsOf(p, op) == {i \in DOMAIN steps : steps[i].page = p /\ steps[i].op = op}

\* C8 as stated: on every page the sort comes after the postprocess and
\* set_context_sentence calls of that page's annotations.
C8_AsStated ==
    \A i, j \in DOMAIN steps :
        (/\ steps[i].op = "sort"
         /\ steps[j].op \in {"postprocess", "align"}
         /\ steps[i].page = steps[j].page) => j < i

\* the page at index p has been left by the page loop
PageDone(p) == p < Len(result) \/ (p = Len(result) /\ pc \in {"enumerate", "returned"})

\* C8 amended: on every page that has annotations or outlines the page is
\* rendered first, then its annotations and outlines are sorted, and only then
\* postprocess and set_context_sentence run, in that order, for each
\* annotation; that loop is the last step of the page, and no step of a page
\* follows a step of a later page.
C8_StepOrder ==
    /\ \A i, j \in DOMAIN steps :
           i < j => /\ steps[i].page <= steps[j].page
                    /\ steps[i].page = steps[j].page =>
                           Rank(steps[i].op) <= Rank(steps[j].op)
    /\ \A j \in DOMAIN steps :
           /\ steps[j].op = "align" =>
                  j > 1 /\ steps[j - 1] = [steps[j] EXCEPT !.op = "postprocess"]
           /\ steps[j].op = "postprocess" =>
                  /\ StepsOf(steps[j].page, "sort") # {}
                  /\ j < Len(steps) /\ steps[j + 1] = [steps[j] EXCEPT !.op = "align"]
           /\ steps[j].op = "sort" => StepsOf(steps[j].page, "render") # {}
    /\ \A p \in 1..Len(result) :
           (PageDone(p) /\ (result[p].annots # <<>> \/ result[p].outlines # <<>>)) =>
               /\ Cardinality(StepsOf(p - 1, "render")) = 1
               /\ Cardinality(StepsOf(p - 1, "sort")) = 1
               /\ Cardinality(StepsOf(p - 1, "align")) = Len(result[p].annots)

\* a first page with two annotations was rendered, sorted and aligned, and
\* the next page has been rendered
C8_Witness ==
    /\ Len(result) = 2
    /\ Len(result[1].annots) = 2
    /\ Cardinality(StepsOf(0, "align")) = 2
    /\ \A i \in StepsOf(0, "sort") : \A j \in StepsOf(0, "align") : i < j
    /\ StepsOf(1, "render") # {}

\* C9: when reading the outline tree raises an exception other than 'no
\* outlines', the document is processed without outlines: no page's outline
\* list receives an entry and both mappings are empty at the end.
C9_NoOutlinesAfterFailure ==
    "warning: failed to retrieve outlines" \in log =>
        /\ \A p \in 1..Len(result) : result[p].outlines = <<>>
        /\ pc = "returned" =>
               DOMAIN outlines_by_pageno = {} /\ DOMAIN outlines_by_objid = {}

----------------------------------------------------------------------------
(* Claims about the report *)

\* the entries that were written to the file, with the place of each line
Written == rpc = "done" /\ entries # <<>> /\ out_file[Len(out_file)].kind = "rule"

LineOf(n) == out_file[Len(out_file) - 1 - Len(entries) + n]

\* C10: for every entry whose comment is non-empty and whose context is
\* absent or empty, the line written is the '*standalone comment:*' line and
\* it carries the text of that entry's comment.
C10_StandaloneCommentLine ==
    Written =>
        \A n \in 1..Len(entries) :
            (Truthy(entries[n][2]) /\ ~Truthy(entries[n][1])) =>
                LineOf(n).parts =
                    <<"\n\n- > *standalone comment:* ", entries[n][2].val, "\n\n">>

====
